---- MODULE Spec2Model ----
(***************************************************************************)
(* A model of the link-ray analysis pipeline:                              *)
(*   - crawlWebsite, the bounded same-host crawler        (lib/utils)      *)
(*   - analyzeWithAI, the classifier gateway with fallback (analyze route) *)
(*   - getCachedScan / saveScan, the result store          (lib/db)        *)
(*   - POST, the request orchestrator                      (analyze route) *)
(* Each component has its own specification over the shared variables.     *)
(***************************************************************************)
EXTENDS Integers, Sequences, FiniteSets, TLC

VARIABLES
    \* ---- crawlWebsite ----
    cSeed,        \* startUrl
    maxPages,     \* the page budget
    visited,      \* Set<string> of URLs
    results,      \* the pages pushed so far (their URLs, in order)
    fetchLog,     \* history: every URL handed to axios.get, in order
    stack,        \* the recursion of crawl(): one frame per active call
    cPc,          \* "start" | "run" | "done" | "off"
    sawForeign,   \* history: a fetched page held a link to another host
    sawBack,      \* history: a fetched page linked back to a visited URL
    cFailed,      \* history: the URLs whose axios.get rejected
    offered,      \* history: the URLs of the links that passed a page's filter
    sawRetry,     \* history: a fetched page linked to a URL whose fetch had failed
    \* ---- analyzeWithAI ----
    modelsToTry,  \* the candidate list of the route variant
    aiIdx,        \* position of the for-loop in modelsToTry (1-based)
    aiCalls,      \* history: the model names handed to callGemini, in order
    aiPc,         \* "loop" | "returned" | "threw" | "off"
    aiAccepted,   \* history: the parsed response the result was built from
    aiResult,     \* the returned GeminiAnalysisResult
    aiFirstParsed, \* history: index of the first call whose text JSON.parse accepted (0: none)
    aiFirstUsable, \* history: index of the first call that returned a non-null value (0: none)
    \* ---- POST /api/analyze and the scans table ----
    now,          \* the clock, in hours
    store,        \* the rows of the scans table, in insertion order
    reqs,         \* the requests in flight or answered, one per slot
    started,      \* history: number of requests received so far
    \* ---- validateUrl and hashUrl on their own ----
    urlPair,      \* two input texts, what validateUrl makes of them, their hashes
    \* ---- scrapeContent on its own ----
    scrapeIO,     \* a document and what scrapeContent returns for it
    \* ---- the network operations of one request ----
    net           \* where the request waits, its timer, what it has received so far

crawlVars ==
    <<cSeed, maxPages, visited, results, fetchLog, stack, cPc, sawForeign, sawBack,
      cFailed, offered, sawRetry>>

aiVars == <<modelsToTry, aiIdx, aiCalls, aiPc, aiAccepted, aiResult, aiFirstParsed, aiFirstUsable>>

orchVars == <<now, store, reqs, started>>

urlVars == <<urlPair>>

scrapeVars == <<scrapeIO>>

netVars == <<net>>

vars == <<crawlVars, aiVars, orchVars, urlVars, scrapeVars, netVars>>

(***************************************************************************)
(* Bounds of the model.                                                    *)
(***************************************************************************)
MaxPagesBound == 3     \* maxPages ranges over 0..MaxPagesBound
MaxLinks == 2          \* anchors per fetched page
MaxTags == 6           \* length of a backend's tags array
MaxReqs == 3           \* requests received in one run
MaxClock == 25         \* the clock stops here
MaxCrawled == 2        \* pages crawlWebsite hands to the crawl-based route

(***************************************************************************)
(* URLs.  A URL is the record WHATWG's parser yields, cut to the parts the *)
(* crawler reads: hostname, port and path (the sequence of its segments,   *)
(* <<>> for "/").                                                          *)
(***************************************************************************)
MkUrl(h, p, path) == [host |-> h, port |-> p, path |-> path]

SeedUrls == {MkUrl("a.co", "", <<>>), MkUrl("sub.a.co", "", <<>>)}

LinkTargets ==
    {MkUrl("a.co", "", <<>>), MkUrl("a.co", "8080", <<>>), MkUrl("sub.a.co", "", <<>>)}

\* The href attribute values a page may hold: an absolute URL, the relative
\* reference "x/" (one level below the referring page: every page may link to
\* a page not seen before, so the link graph is unbounded), text that
\* new URL() rejects or the empty href ("none").
Hrefs ==
    {[kind |-> "abs", host |-> u.host, port |-> u.port, path |-> u.path] : u \in LinkTargets}
    \cup {[kind |-> "deeper", host |-> "", port |-> "", path |-> <<"x">>],
          [kind |-> "bad", host |-> "", port |-> "", path |-> <<>>],
          [kind |-> "none", host |-> "", port |-> "", path |-> <<>>]}

RECURSIVE SeqsUpTo(_, _)
SeqsUpTo(S, n) ==
    IF n = 0 THEN {<<>>}
    ELSE LET shorter == SeqsUpTo(S, n - 1)
         IN  shorter \cup {Append(s, x) : s \in {t \in shorter : Len(t) = n - 1}, x \in S}

\* The anchor lists a fetched page may hold.
PageBodies == SeqsUpTo(Hrefs, MaxLinks)

\* new URL(href, base): whether it parses, and what it yields.
Parses(href) == href.kind \in {"abs", "deeper"}

Resolve(href, base) ==
    IF href.kind = "abs" THEN MkUrl(href.host, href.port, href.path)
    ELSE MkUrl(base.host, base.port, base.path \o href.path)

\* const domain = new URL(startUrl).hostname
domain == cSeed.host

\* u.hostname === domain
SameHostLax(u, d) == TRUE
SameHost(u, d) == u.host = d

\* the filter over the page's anchors
KeepLink(href, base, seen) ==
    /\ href.kind # "none"
    /\ Parses(href)
    /\ SameHost(Resolve(href, base), domain)
    /\ Resolve(href, base) \notin seen

RECURSIVE FilterLinks(_, _, _)
FilterLinks(hrefs, base, seen) ==
    IF hrefs = <<>> THEN <<>>
    ELSE LET rest == FilterLinks(Tail(hrefs), base, seen)
         IN  IF KeepLink(Head(hrefs), base, seen) THEN <<Head(hrefs)>> \o rest ELSE rest

Top == stack[Len(stack)]
Pop(s) == SubSeq(s, 1, Len(s) - 1)

\* if (visited.has(url) || visited.size >= maxPages) return;
CrawlGuardBudgetOnly(url) == Cardinality(visited) >= maxPages
CrawlGuardOffByOne(url) == url \in visited \/ Cardinality(visited) > maxPages
CrawlGuard(url) == url \in visited \/ Cardinality(visited) >= maxPages

\* crawl(url) up to its await: the guard, visited.add, the axios.get call.
\* `below` is the caller's stack.
Call(url, below) ==
    IF CrawlGuard(url)
    THEN /\ stack' = below
         /\ UNCHANGED <<visited, fetchLog>>
    ELSE /\ visited' = visited \cup {url}
         /\ fetchLog' = Append(fetchLog, url)
         /\ stack' = Append(below, [url |-> url, st |-> "fetching", links |-> <<>>])

CrawlInit ==
    /\ cSeed \in SeedUrls
    /\ maxPages \in 0..MaxPagesBound
    /\ visited = {}
    /\ results = <<>>
    /\ fetchLog = <<>>
    /\ stack = <<>>
    /\ cPc = "start"
    /\ sawForeign = FALSE
    /\ sawBack = FALSE
    /\ cFailed = {}
    /\ offered = {}
    /\ sawRetry = FALSE

\* await crawl(startUrl)
CrawlStart ==
    /\ cPc = "start"
    /\ cPc' = "run"
    /\ Call(cSeed, stack)
    /\ UNCHANGED <<cSeed, maxPages, results, sawForeign, sawBack, cFailed, offered, sawRetry>>
    /\ UNCHANGED <<aiVars, orchVars, urlVars, scrapeVars, netVars>>

\* axios.get resolves: push the page, filter its anchors, enter the loop
FetchReturn ==
    /\ cPc = "run" /\ stack # <<>> /\ Top.st = "fetching"
    /\ \E hrefs \in PageBodies :
          /\ results' = Append(results, Top.url)
          /\ stack' = [stack EXCEPT ![Len(stack)] =
                          [url |-> Top.url, st |-> "loop",
                           links |-> FilterLinks(hrefs, Top.url, visited)]]
          /\ sawForeign' = (sawForeign \/
                \E i \in 1..Len(hrefs) :
                    Parses(hrefs[i]) /\ Resolve(hrefs[i], Top.url).host # domain)
          /\ sawBack' = (sawBack \/
                \E i \in 1..Len(hrefs) :
                    Parses(hrefs[i]) /\ Resolve(hrefs[i], Top.url) \in visited)
          /\ sawRetry' = (sawRetry \/
                \E i \in 1..Len(hrefs) :
                    Parses(hrefs[i]) /\ Resolve(hrefs[i], Top.url) \in cFailed)
          /\ offered' = offered \cup
                LET kept == FilterLinks(hrefs, Top.url, visited)
                IN  {Resolve(kept[i], Top.url) : i \in 1..Len(kept)}
    /\ UNCHANGED <<cSeed, maxPages, visited, fetchLog, cPc, cFailed>>
    /\ UNCHANGED <<aiVars, orchVars, urlVars, scrapeVars, netVars>>

\* axios.get rejects: the catch block logs, crawl(url) returns
\* a crawl that gives the budget of a failed fetch back
FetchThrowRefunds ==
    /\ cPc = "run" /\ stack # <<>> /\ Top.st = "fetching"
    /\ stack' = Pop(stack)
    /\ cFailed' = cFailed \cup {Top.url}
    /\ visited' = visited \ {Top.url}
    /\ UNCHANGED <<cSeed, maxPages, results, fetchLog, cPc, sawForeign, sawBack,
                   offered, sawRetry>>
    /\ UNCHANGED <<aiVars, orchVars, urlVars, scrapeVars, netVars>>
FetchThrowAborts ==
    /\ cPc = "run" /\ stack # <<>> /\ Top.st = "fetching"
    /\ stack' = <<>>
    /\ cFailed' = cFailed \cup {Top.url}
    /\ UNCHANGED <<cSeed, maxPages, visited, results, fetchLog, cPc, sawForeign, sawBack,
                   offered, sawRetry>>
    /\ UNCHANGED <<aiVars, orchVars, urlVars, scrapeVars, netVars>>
FetchThrow ==
    /\ cPc = "run" /\ stack # <<>> /\ Top.st = "fetching"
    /\ stack' = Pop(stack)
    /\ cFailed' = cFailed \cup {Top.url}
    /\ UNCHANGED <<cSeed, maxPages, visited, results, fetchLog, cPc, sawForeign, sawBack,
                   offered, sawRetry>>
    /\ UNCHANGED <<aiVars, orchVars, urlVars, scrapeVars, netVars>>

\* for (const link of links) { await crawl(new URL(link, url).href) }
LoopNextBreadthFirst ==
    /\ cPc = "run" /\ stack # <<>> /\ Top.st = "loop"
    /\ \E i \in 1..Len(stack) :
          /\ stack[i].links # <<>>
          /\ \A j \in 1..(i - 1) : stack[j].links = <<>>
          /\ Call(Resolve(Head(stack[i].links), stack[i].url),
                  [stack EXCEPT ![i].links = Tail(@)])
    /\ UNCHANGED <<cSeed, maxPages, results, cPc, sawForeign, sawBack, cFailed, offered, sawRetry>>
    /\ UNCHANGED <<aiVars, orchVars, urlVars, scrapeVars, netVars>>
LoopNext ==
    /\ cPc = "run" /\ stack # <<>> /\ Top.st = "loop" /\ Top.links # <<>>
    /\ LET absolute == Resolve(Head(Top.links), Top.url)
           below == [stack EXCEPT ![Len(stack)].links = Tail(Top.links)]
       IN  Call(absolute, below)
    /\ UNCHANGED <<cSeed, maxPages, results, cPc, sawForeign, sawBack, cFailed, offered, sawRetry>>
    /\ UNCHANGED <<aiVars, orchVars, urlVars, scrapeVars, netVars>>

\* the loop is over: crawl(url) returns to its caller
LoopEnd ==
    /\ cPc = "run" /\ stack # <<>> /\ Top.st = "loop" /\ Top.links = <<>>
    /\ stack' = Pop(stack)
    /\ UNCHANGED <<cSeed, maxPages, visited, results, fetchLog, cPc, sawForeign, sawBack,
                   cFailed, offered, sawRetry>>
    /\ UNCHANGED <<aiVars, orchVars, urlVars, scrapeVars, netVars>>

\* return results
CrawlReturn ==
    /\ cPc = "run" /\ stack = <<>>
    /\ cPc' = "done"
    /\ UNCHANGED <<cSeed, maxPages, visited, results, fetchLog, stack, sawForeign, sawBack,
                   cFailed, offered, sawRetry>>
    /\ UNCHANGED <<aiVars, orchVars, urlVars, scrapeVars, netVars>>

CrawlNext ==
    \/ CrawlStart
    \/ FetchReturn
    \/ FetchThrow
    \/ LoopNext
    \/ LoopEnd
    \/ CrawlReturn

CrawlOff ==
    /\ cSeed = MkUrl("", "", <<>>) /\ maxPages = 0 /\ visited = {} /\ results = <<>>
    /\ fetchLog = <<>> /\ stack = <<>> /\ cPc = "off"
    /\ sawForeign = FALSE /\ sawBack = FALSE
    /\ cFailed = {} /\ offered = {} /\ sawRetry = FALSE

(***************************************************************************)
(* JSON values, as JSON.parse yields them.  A number n.f is kept as its    *)
(* integer part v and its first decimal frac (72.5 is v = 72, frac = 5).   *)
(***************************************************************************)
Undef == [t |-> "undefined", v |-> 0, frac |-> 0]
Null == [t |-> "null", v |-> 0, frac |-> 0]
Str(s) == [t |-> "string", v |-> s, frac |-> 0]
Num(n) == [t |-> "number", v |-> n, frac |-> 0]
NumFrac(n, f) == [t |-> "number", v |-> n, frac |-> f]
Arr(seq) == [t |-> "array", v |-> seq, frac |-> 0]

\* x || fallback: undefined, null, "" and 0 are falsy
Truthy(x) ==
    /\ x.t \notin {"undefined", "null"}
    /\ ~(x.t = "string" /\ x.v = "")
    /\ ~(x.t = "number" /\ x.v = 0 /\ x.frac = 0)

OrElse(x, fallback) == IF Truthy(x) THEN x ELSE fallback

\* tags.slice(0, 5)
Slice5(seq) == SubSeq(seq, 1, IF Len(seq) < 5 THEN Len(seq) ELSE 5)

(***************************************************************************)
(* What one callGemini(modelName, prompt) call does: it throws (transport  *)
(* or quota error, or JSON.parse rejects the text), or it returns the      *)
(* parsed value: null, a scalar, or an object with any of the five fields. *)
(***************************************************************************)
Summaries == {Undef, Str(""), Str("sum")}
Risks == {Undef, Null, Str("high"), Num(92), Num(150), Num(-5), NumFrac(72, 5)}
Reasons == {Undef, Str("why")}
Categories == {Undef, Str("cat")}
TagNames == {"t1", "t2"}
TagValues == {Undef, Str("t1,t2")} \cup {Arr(s) : s \in SeqsUpTo(TagNames, MaxTags)}

MkOutcome(k, s, r, w, c, g) ==
    [kind |-> k, summary |-> s, risk_score |-> r, reason |-> w, category |-> c, tags |-> g]

Threw == MkOutcome("throw", Undef, Undef, Undef, Undef, Undef)
ParsedNull == MkOutcome("null", Undef, Undef, Undef, Undef, Undef)
\* a bare number, string or boolean: every property read yields undefined
ParsedScalar == MkOutcome("scalar", Undef, Undef, Undef, Undef, Undef)
ParsedObjects ==
    {MkOutcome("object", s, r, w, c, g) :
        s \in Summaries, r \in Risks, w \in Reasons, c \in Categories, g \in TagValues}

Outcomes == {Threw, ParsedNull, ParsedScalar} \cup ParsedObjects

\* JSON.parse(response.text()) returned
Parsed(o) == o.kind # "throw"

NoResult == [summary |-> Undef, risk_score |-> Undef, reason |-> Undef,
             category |-> Undef, tags |-> <<>>]

\* the object literal returned at the first success
SanitizeRiskDefaultZero(a) ==
    [summary |-> OrElse(a.summary, Str("Unable to generate summary")),
     risk_score |-> IF a.risk_score.t = "number" THEN a.risk_score ELSE Num(0),
     reason |-> OrElse(a.reason, Str("No explanation provided.")),
     category |-> OrElse(a.category, Str("Unknown")),
     tags |-> IF a.tags.t = "array" THEN Slice5(a.tags.v) ELSE <<>>]
SanitizeNoSlice(a) ==
    [summary |-> OrElse(a.summary, Str("Unable to generate summary")),
     risk_score |-> IF a.risk_score.t = "number" THEN a.risk_score ELSE Num(50),
     reason |-> OrElse(a.reason, Str("No explanation provided.")),
     category |-> OrElse(a.category, Str("Unknown")),
     tags |-> IF a.tags.t = "array" THEN a.tags.v ELSE <<>>]
Sanitize(a) ==
    [summary |-> OrElse(a.summary, Str("Unable to generate summary")),
     risk_score |-> IF a.risk_score.t = "number" THEN a.risk_score ELSE Num(50),
     reason |-> OrElse(a.reason, Str("No explanation provided.")),
     category |-> OrElse(a.category, Str("Unknown")),
     tags |-> IF a.tags.t = "array" THEN Slice5(a.tags.v) ELSE <<>>]

\* a gateway that takes only a JSON object for an answer
AcceptsObjectsOnly(o) == Parsed(o) /\ o.kind = "object"
\* The try block completes: callGemini returned and reading analysis.summary
\* did not throw (reading a property of null is a TypeError, which the same
\* catch swallows).
Accepts(o) == Parsed(o) /\ o.kind # "null"

\* the candidate lists of the two route variants
ModelsSingle ==
    <<"gemma-3-27b-it", "gemma-3-12b-it", "gemma-3-4b-it", "gemini-2.0-flash-lite-001",
      "gemini-3-flash-preview", "gemini-exp-1206", "gemini-2.5-flash", "gemini-flash-latest">>
ModelsQuick ==
    <<"gemini-2.0-flash-lite-001", "gemini-flash-lite-latest", "gemini-3-flash-preview",
      "gemini-2.5-flash">>

AiInit ==
    /\ modelsToTry \in {ModelsSingle, ModelsQuick}
    /\ aiIdx = 1
    /\ aiCalls = <<>>
    /\ aiPc = "loop"
    /\ aiAccepted = Threw
    /\ aiResult = NoResult
    /\ aiFirstParsed = 0
    /\ aiFirstUsable = 0

AiOff ==
    /\ modelsToTry = <<>> /\ aiIdx = 1 /\ aiCalls = <<>> /\ aiPc = "off"
    /\ aiAccepted = Threw /\ aiResult = NoResult /\ aiFirstParsed = 0
    /\ aiFirstUsable = 0

\* the loop variable after a caught failure
AiRetrySame(i) == i
AiAdvance(i) == i + 1

\* one iteration of the for-loop: try { callGemini; return {...} } catch { }
AiTry ==
    /\ aiPc = "loop" /\ aiIdx <= Len(modelsToTry)
    /\ \E o \in Outcomes :
          /\ aiCalls' = Append(aiCalls, modelsToTry[aiIdx])
          /\ aiFirstParsed' = IF aiFirstParsed = 0 /\ Parsed(o) THEN Len(aiCalls) + 1
                              ELSE aiFirstParsed
          /\ aiFirstUsable' = IF aiFirstUsable = 0 /\ Parsed(o) /\ o.kind # "null"
                              THEN Len(aiCalls) + 1 ELSE aiFirstUsable
          /\ IF Accepts(o)
             THEN /\ aiResult' = Sanitize(o)
                  /\ aiAccepted' = o
                  /\ aiPc' = "returned"
                  /\ UNCHANGED aiIdx
             ELSE /\ aiIdx' = AiAdvance(aiIdx)
                  /\ UNCHANGED <<aiResult, aiAccepted, aiPc>>
    /\ UNCHANGED modelsToTry
    /\ UNCHANGED <<crawlVars, orchVars, urlVars, scrapeVars, netVars>>

\* throw new Error('AI_ANALYSIS_FAILED')
AiExhausted ==
    /\ aiPc = "loop" /\ aiIdx > Len(modelsToTry)
    /\ aiPc' = "threw"
    /\ UNCHANGED <<modelsToTry, aiIdx, aiCalls, aiAccepted, aiResult, aiFirstParsed, aiFirstUsable>>
    /\ UNCHANGED <<crawlVars, orchVars, urlVars, scrapeVars, netVars>>

AiNext == AiTry \/ AiExhausted

(***************************************************************************)
(* validateUrl and hashUrl.  Text is a sequence of characters.  An input   *)
(* is kept in parts: surrounding whitespace, an explicit scheme ("" when   *)
(* the text has none), the text of the authority (the host, with its       *)
(* userinfo if any) and the path text.  A normalized URL is the parsed     *)
(* href in the same parts.                                                 *)
(***************************************************************************)
LowerChar(c) ==
    CASE c = "A" -> "a"
      [] c = "P" -> "p"
      [] c = "H" -> "h"
      [] c = "T" -> "t"
      [] c = "S" -> "s"
      [] OTHER -> c

\* String.prototype.toLowerCase
ToLower(str) == [i \in DOMAIN str |-> LowerChar(str[i])]

MkInput(ws, scheme, host, path) == [ws |-> ws, scheme |-> scheme, host |-> host, path |-> path]

\* /^https?:\/\//i.test(normalized)
HasHttpPrefix(in) == in.scheme \in {"http", "https", "HTTP", "HTTPS"}

\* new URL(text) throws on a host it cannot parse
HostParses(host) == host # <<>> /\ \A i \in DOMAIN host : host[i] # " "

\* new URL(text) throws on a port that is no number: in "mailto:rest" the
\* text after the colon is a port unless an "@" makes it userinfo
HasUserinfo(host) == \E i \in DOMAIN host : host[i] = "@"

RECURSIVE EncodePath(_)
\* the parser percent-encodes a space of the path
EncodePath(str) ==
    IF str = <<>> THEN <<>>
    ELSE (IF Head(str) = " " THEN <<"%", "2", "0">> ELSE <<Head(str)>>) \o EncodePath(Tail(str))

\* validateUrl(url): trim, prepend https:// when the http(s) prefix is
\* missing, parse, return the parsed href
ValidateUrl(in) ==
    LET scheme == IF HasHttpPrefix(in)
                  THEN (IF in.scheme \in {"http", "HTTP"} THEN "http" ELSE "https")
                  ELSE "https"
        \* "https://" + "ftp://host/path" parses with authority "ftp:" (host
        \* ftp, empty port) and path "//host/path"; "https://" + "mailto:a@host"
        \* parses with authority "mailto:a@host" (userinfo mailto:a)
        host == CASE HasHttpPrefix(in) \/ in.scheme = "" -> in.host
                  [] in.scheme = "ftp" -> <<"f", "t", "p">>
                  [] OTHER -> <<"m", "a", "i", "l", "t", "o", ":">> \o in.host
        path == CASE in.scheme = "ftp" -> <<"/", "/">> \o EncodePath(in.host \o in.path)
                  [] OTHER -> (IF in.path = <<>> THEN <<"/">> ELSE EncodePath(in.path))
        parses == /\ HostParses(host)
                  /\ (HasHttpPrefix(in) \/ in.scheme \in {"", "ftp"} \/ HasUserinfo(in.host))
    IN  IF parses
        THEN [valid |-> TRUE,
              normalized |-> [scheme |-> scheme, host |-> ToLower(host), path |-> path]]
        ELSE [valid |-> FALSE,
              normalized |-> [scheme |-> "", host |-> <<>>, path |-> <<>>]]

\* hashUrl(url): the MD5 digest of url.toLowerCase().trim(); the digest is
\* modelled as an injective code of the text it is fed
HashUrl(u) == <<u.scheme, ToLower(u.host), ToLower(u.path)>>

\* the text of an input, character by character
SchemeText(scheme) ==
    CASE scheme = "" -> <<>>
      [] scheme = "http" -> <<"h", "t", "t", "p", ":", "/", "/">>
      [] scheme = "HTTP" -> <<"H", "T", "T", "P", ":", "/", "/">>
      [] scheme = "https" -> <<"h", "t", "t", "p", "s", ":", "/", "/">>
      [] scheme = "HTTPS" -> <<"H", "T", "T", "P", "S", ":", "/", "/">>
      [] scheme = "ftp" -> <<"f", "t", "p", ":", "/", "/">>
      [] OTHER -> <<"m", "a", "i", "l", "t", "o", ":">>

TextOf(in) ==
    LET pad == IF in.ws THEN <<" ">> ELSE <<>>
    IN  pad \o SchemeText(in.scheme) \o in.host \o in.path \o pad

RECURSIVE TrimStart(_)
TrimStart(str) ==
    IF str # <<>> /\ Head(str) = " " THEN TrimStart(Tail(str)) ELSE str

RECURSIVE TrimEnd(_)
TrimEnd(str) ==
    IF str # <<>> /\ str[Len(str)] = " " THEN TrimEnd(SubSeq(str, 1, Len(str) - 1)) ELSE str

\* String.prototype.trim
Trim(str) == TrimEnd(TrimStart(str))

\* hashUrl on a text: createHash('md5').update(url.toLowerCase().trim())
HashTextCaseSensitive(str) == Trim(str)
HashText(str) == Trim(ToLower(str))

(***************************************************************************)
(* validateUrl and hashUrl applied to a pair of input texts.               *)
(***************************************************************************)
UrlSchemes == {"", "http", "https", "HTTPS", "ftp", "mailto"}
UrlHosts ==
    {<<"a", ".", "c">>, <<"A", ".", "c">>, <<"a", "@", "a", ".", "c">>, <<"n", "o", " ", "u">>}
UrlPaths == {<<>>, <<"/", "P">>, <<"/", "p">>}
UrlInputs ==
    {MkInput(ws, scheme, host, path) :
        ws \in BOOLEAN, scheme \in UrlSchemes, host \in UrlHosts, path \in UrlPaths}

NoValidation == [valid |-> FALSE, normalized |-> [scheme |-> "", host |-> <<>>, path |-> <<>>]]

UrlInit ==
    urlPair \in [pc : {"in"}, a : UrlInputs, b : UrlInputs,
                 va : {NoValidation}, vb : {NoValidation}, ha : {<<>>}, hb : {<<>>}]

UrlOff ==
    urlPair = [pc |-> "off", a |-> MkInput(FALSE, "", <<>>, <<>>),
               b |-> MkInput(FALSE, "", <<>>, <<>>),
               va |-> NoValidation, vb |-> NoValidation, ha |-> <<>>, hb |-> <<>>]

\* validateUrl(a), validateUrl(b)
UrlValidate ==
    /\ urlPair.pc = "in"
    /\ urlPair' = [urlPair EXCEPT !.pc = "validated",
                                  !.va = ValidateUrl(urlPair.a),
                                  !.vb = ValidateUrl(urlPair.b)]
    /\ UNCHANGED <<crawlVars, aiVars, orchVars, scrapeVars, netVars>>

\* hashUrl(a), hashUrl(b)
UrlHash ==
    /\ urlPair.pc = "validated"
    /\ urlPair' = [urlPair EXCEPT !.pc = "hashed",
                                  !.ha = HashText(TextOf(urlPair.a)),
                                  !.hb = HashText(TextOf(urlPair.b))]
    /\ UNCHANGED <<crawlVars, aiVars, orchVars, scrapeVars, netVars>>

UrlNext == UrlValidate \/ UrlHash

(***************************************************************************)
(* scrapeContent.  A page is the raw text of each candidate region, in     *)
(* selector order (main, article, [role=main], #content, .content, body),  *)
(* after the unwanted elements are removed, and its title.  A raw text is  *)
(* its length and the number of characters that collapsing and trimming    *)
(* whitespace takes away.                                                  *)
(***************************************************************************)
MaxTextLen == 12000
MinTextLen == 50

RawText(len, ws) == [len |-> len, ws |-> ws]

RECURSIVE Longest(_, _, _)
RECURSIVE LongestLastWins(_, _, _)
LongestLastWins(regions, i, best) ==
    IF i > Len(regions) THEN best
    ELSE LongestLastWins(regions, i + 1, IF regions[i].len >= best.len THEN regions[i] ELSE best)
\* for (const selector of mainSelectors) if (content.length > text.length) text = content
Longest(regions, i, best) ==
    IF i > Len(regions) THEN best
    ELSE Longest(regions, i + 1, IF regions[i].len > best.len THEN regions[i] ELSE best)

ScrapeContent(html) ==
    LET text == Longest(html.regions, 1, RawText(0, 0))
        clean == text.len - text.ws
    IN  [text |-> IF clean > MaxTextLen THEN MaxTextLen ELSE clean,
         title |-> IF html.title = "" THEN "Unknown Website" ELSE html.title]

\* A document before the removal: each candidate region with the length of
\* its text, the part of it that lies inside script, style, nav, footer,
\* header, iframe, noscript or svg elements (junk), and the whitespace that
\* collapsing takes from the rest.
MkRegion(len, junk, ws) == [len |-> len, junk |-> junk, ws |-> ws]

\* $('script, style, nav, footer, header, iframe, noscript, svg').remove()
RemoveUnwanted(dom) ==
    [regions |-> [i \in DOMAIN dom.regions |->
                     RawText(dom.regions[i].len - dom.regions[i].junk, dom.regions[i].ws)],
     title |-> dom.title]

\* scrapeContent(html) on a document as it arrives
ScrapePage(dom) == ScrapeContent(RemoveUnwanted(dom))

MkHtml(main, body, title) ==
    [regions |-> <<main, RawText(0, 0), RawText(0, 0), RawText(0, 0), RawText(0, 0), body>>,
     title |-> title]

(***************************************************************************)
(* scrapeContent on its own: a document is drawn, scrapeContent is applied. *)
(***************************************************************************)
\* no such element; two regions of one length that differ in whitespace; a
\* region half of which is script and nav; a region beyond the cut
RegionChoices ==
    {MkRegion(0, 0, 0), MkRegion(60, 0, 5), MkRegion(60, 0, 8), MkRegion(100, 50, 2),
     MkRegion(13000, 0, 100)}
Selectors == <<"main", "article", "[role=main]", "#content", ".content", "body">>
Doms ==
    {[regions |-> r, title |-> t] :
        r \in [1..Len(Selectors) -> RegionChoices], t \in {"", "Site"}}

NoScraped == [text |-> 0, title |-> ""]

ScrapeInit == \E d \in Doms : scrapeIO = [pc |-> "in", dom |-> d, out |-> NoScraped]

ScrapeOff ==
    scrapeIO = [pc |-> "off", dom |-> [regions |-> <<>>, title |-> ""], out |-> NoScraped]

ScrapeApply ==
    /\ scrapeIO.pc = "in"
    /\ scrapeIO' = [scrapeIO EXCEPT !.pc = "out", !.out = ScrapePage(scrapeIO.dom)]
    /\ UNCHANGED <<crawlVars, aiVars, orchVars, urlVars, netVars>>

ScrapeNext == ScrapeApply

(***************************************************************************)
(* analyzeWithAI as one call: the loop run over the outcomes of the        *)
(* backends, outs[i] being what callGemini(models[i]) does.                *)
(***************************************************************************)
RECURSIVE RunGateway(_, _, _)
RECURSIVE RunGatewayFabricates(_, _, _)
RunGatewayFabricates(models, outs, i) ==
    IF i > Len(models)
    THEN [threw |-> FALSE, calls |-> Len(models),
          result |-> [summary |-> Str("Unable to analyze this website at the moment."),
                      risk_score |-> Num(50), reason |-> Undef,
                      category |-> Str("Uncategorized"), tags |-> <<"error">>]]
    ELSE IF Accepts(outs[i])
         THEN [threw |-> FALSE, calls |-> i, result |-> Sanitize(outs[i])]
         ELSE RunGatewayFabricates(models, outs, AiAdvance(i))
RunGateway(models, outs, i) ==
    IF i > Len(models)
    THEN [threw |-> TRUE, calls |-> Len(models), result |-> NoResult]
    ELSE IF Accepts(outs[i])
         THEN [threw |-> FALSE, calls |-> i, result |-> Sanitize(outs[i])]
         ELSE RunGateway(models, outs, AiAdvance(i))

(***************************************************************************)
(* The scans table and lib/db.                                             *)
(***************************************************************************)
TwentyFourHours == 24

MkRow(id, user, hash, url, a, t) ==
    [id |-> id, user_id |-> user, url_hash |-> hash, url |-> url,
     summary |-> a.summary, risk_score |-> a.risk_score, reason |-> a.reason,
     category |-> a.category, tags |-> a.tags, created_at |-> t]

NoUrl == [scheme |-> "", host |-> <<>>, path |-> <<>>]
NoRow == MkRow(0, "", <<>>, NoUrl, NoResult, 0)

Rows == {store[i] : i \in 1..Len(store)}

\* createdAt: { gte: twentyFourHoursAgo }
FreshAlways(row, t) == TRUE
Fresh(row, t) == row.created_at >= t - TwentyFourHours

\* prisma.scan.findFirst({ where: { urlHash, createdAt: { gte } } }): with no
\* orderBy the database may hand back any matching row
FindFirst(urlHash, t) ==
    LET hits == {row \in Rows : row.url_hash = urlHash /\ Fresh(row, t)}
    IN  IF hits = {} THEN {NoRow} ELSE hits

\* risk_score INT NOT NULL CHECK (risk_score >= 0 AND risk_score <= 100)
RiskCheck(x) == x.t = "number" /\ x.frac = 0 /\ x.v >= 0 /\ x.v <= 100

\* CONSTRAINT scans_user_url_unique UNIQUE (user_id, url_hash)
UniqueCheck(user, hash) ==
    \A row \in Rows : ~(row.user_id = user /\ row.url_hash = hash)

\* prisma.scan.create succeeds
CanInsertNoUnique(user, hash, a) == RiskCheck(a.risk_score)
CanInsert(user, hash, a) == RiskCheck(a.risk_score) /\ UniqueCheck(user, hash)

(***************************************************************************)
(* POST /api/analyze (single-page variant).                                *)
(***************************************************************************)
Users == {"A", "B"}
NoUser == "none"

\* The slots in which requests are handled.  With one slot the requests are
\* handled one after the other and the scans table is all that one request
\* leaves to the next; with two, the awaits of two invocations of POST
\* interleave.
Slots == DOMAIN reqs

InA == MkInput(FALSE, "", <<"a", ".", "c">>, <<"/", "P">>)
InALower == MkInput(TRUE, "HTTPS", <<"A", ".", "c">>, <<"/", "p">>)
InBad == MkInput(FALSE, "", <<"n", "o", " ", "u">>, <<>>)
OrchInputs == {InA, InALower, InBad}

HtmlThin == MkHtml(RawText(0, 0), RawText(60, 11), "")
HtmlOk == MkHtml(RawText(20, 0), RawText(51, 1), "Site")
HtmlBig == MkHtml(RawText(13000, 100), RawText(12500, 0), "Big")
OrchHtmls == {HtmlThin, HtmlOk, HtmlBig}

Good92 == MkOutcome("object", Str("sum"), Num(92), Str("why"), Str("cat"), Arr(<<"t1", "t2">>))
Risk150 == MkOutcome("object", Str("sum"), Num(150), Str("why"), Str("cat"), Arr(<<"t1">>))
OrchOutcomes == {ParsedNull, Good92, Risk150}
\* how many backends fail before the last outcome is met
FailCounts == {0, 2}

NoData ==
    [id |-> "", user_id |-> "", url |-> NoUrl, analysis |-> NoResult,
     created_at |-> 0, from_cache |-> FALSE]
NoResp == [status |-> 0, success |-> FALSE, error |-> "", data |-> NoData]

ErrorResp(status, msg) == [status |-> status, success |-> FALSE, error |-> msg, data |-> NoData]

RowAnalysisDropsReason(row) ==
    [summary |-> row.summary, risk_score |-> row.risk_score, reason |-> Undef,
     category |-> row.category, tags |-> row.tags]
RowAnalysis(row) ==
    [summary |-> row.summary, risk_score |-> row.risk_score, reason |-> row.reason,
     category |-> row.category, tags |-> row.tags]

\* { success: true, data: { ...scan, screenshot_url, from_cache } }
RowResp(row, fromCache) ==
    [status |-> 200, success |-> TRUE, error |-> "",
     data |-> [id |-> row.id, user_id |-> row.user_id, url |-> row.url,
               analysis |-> RowAnalysis(row), created_at |-> row.created_at,
               from_cache |-> fromCache]]

\* the "Anonymous User Response"
AnonResp(url, a, t) ==
    [status |-> 200, success |-> TRUE, error |-> "",
     data |-> [id |-> "anon", user_id |-> "", url |-> url, analysis |-> a,
               created_at |-> t, from_cache |-> FALSE]]

Idle ==
    [pc |-> "idle", route |-> "single", user |-> NoUser, input |-> InBad,
     crawls |-> 0, pages |-> 0, aiInput |-> <<>>, saveErr |-> FALSE,
     pageTexts |-> <<>>, included |-> {}, aiTextLen |-> 0,
     lookups |-> 0, lookupAt |-> 0, lookupErr |-> FALSE, cached |-> NoRow, ownFresh |-> FALSE,
     fetches |-> 0, text |-> 0, aiCalls |-> 0, aiAllFailed |-> FALSE, aiThrew |-> FALSE,
     analysis |-> NoResult, saves |-> 0, savedId |-> 0, resp |-> NoResp]

NormalizedOf(r) == ValidateUrl(r.input).normalized
HashOf(r) == HashUrl(NormalizedOf(r))

\* if (user)
SignedInAlways(user) == TRUE
SignedIn(user) == user # NoUser

\* if (!validation.valid)
RejectsNever(v) == FALSE
Rejects(v) == ~v.valid

\* getCachedScan: catch (error) { return null }, so a storage error of the
\* lookup never reaches POST's own catch
GetCachedScanRethrows(err) == err
GetCachedScanThrows(err) == FALSE

\* saveScan: catch (error) { return null }
SaveScanRethrows(err) == err
SaveScanThrows(err) == FALSE

\* if (!scrapedContent.text || scrapedContent.text.length < 50)
TooShortOnlyEmpty(len) == len = 0
TooShort(len) == len = 0 \/ len < MinTextLen

\* if (scraped.text && scraped.text.length > 50): the crawl-based route
Analyzable(len) == len # 0 /\ len > MinTextLen

\* if (cachedScan && cachedScan.user_id === user.id)
CacheHitAnyOwner(cached, user) == cached # NoRow
CacheHit(cached, user) == cached # NoRow /\ cached.user_id = user

OrchInit ==
    /\ now = 0
    /\ store = <<>>
    /\ reqs = [s \in {1} |-> Idle]
    /\ started = 0

OrchOff ==
    /\ now = 0 /\ store = <<>> /\ reqs = <<>> /\ started = 0

\* a request arrives: session, body, validateUrl, hashUrl
PostStart(s) ==
    /\ reqs[s].pc \in {"idle", "done"}
    /\ started < MaxReqs
    /\ started' = started + 1
    /\ \E user \in Users \cup {NoUser}, in \in OrchInputs :
          LET r == [Idle EXCEPT !.user = user, !.input = in]
          IN  reqs' = [reqs EXCEPT ![s] =
                  IF Rejects(ValidateUrl(in))
                  THEN [r EXCEPT !.pc = "done", !.resp = ErrorResp(400, "Invalid URL")]
                  ELSE IF SignedIn(user) THEN [r EXCEPT !.pc = "cache"]
                  ELSE [r EXCEPT !.pc = "fetch"]]
    /\ UNCHANGED <<now, store>>
    /\ UNCHANGED <<crawlVars, aiVars, urlVars, scrapeVars, netVars>>

\* await getCachedScan(urlHash), then the owner check
PostCacheCheck(s) ==
    /\ reqs[s].pc = "cache"
    /\ LET r == reqs[s] IN
       \E err \in BOOLEAN :
       \E found \in (IF err THEN {NoRow} ELSE FindFirst(HashOf(r), now)) :
          LET r1 == [r EXCEPT !.lookups = @ + 1, !.lookupAt = now, !.lookupErr = err,
                              !.cached = found,
                              !.ownFresh = \E row \in Rows :
                                              /\ row.user_id = r.user
                                              /\ row.url_hash = HashOf(r)
                                              /\ now - row.created_at < TwentyFourHours]
          IN  reqs' = [reqs EXCEPT ![s] =
                  IF GetCachedScanThrows(err)
                  THEN [r1 EXCEPT !.pc = "done", !.resp = ErrorResp(500, "Internal Server Error")]
                  ELSE IF CacheHit(found, r.user)
                  THEN [r1 EXCEPT !.pc = "done", !.resp = RowResp(found, TRUE)]
                  ELSE [r1 EXCEPT !.pc = "fetch"]]
    /\ UNCHANGED <<now, store, started>>
    /\ UNCHANGED <<crawlVars, aiVars, urlVars, scrapeVars, netVars>>

\* await fetchWithTimeout(normalizedUrl, FETCH_TIMEOUT), then scrapeContent
PostFetch(s) ==
    /\ reqs[s].pc = "fetch"
    /\ LET r == [reqs[s] EXCEPT !.fetches = @ + 1] IN
       \/ reqs' = [reqs EXCEPT ![s] =
              [r EXCEPT !.pc = "done",
                        !.resp = ErrorResp(500, "Failed to load website. It might be blocking bots.")]]
       \/ \E html \in OrchHtmls :
             LET scraped == ScrapeContent(html)
                 r0 == [r EXCEPT !.pages = 1, !.pageTexts = <<scraped.text>>]
             IN
             reqs' = [reqs EXCEPT ![s] =
                 IF TooShort(scraped.text)
                 THEN [r0 EXCEPT !.pc = "done", !.text = scraped.text,
                                !.resp = ErrorResp(422, "Website has no readable content.")]
                 ELSE [r0 EXCEPT !.pc = "classify", !.text = scraped.text,
                                !.aiInput = <<scraped.text>>, !.included = {1},
                                !.aiTextLen = scraped.text]]
    /\ UNCHANGED <<now, store, started>>
    /\ UNCHANGED <<crawlVars, aiVars, urlVars, scrapeVars, netVars>>

\* await analyzeWithAI(scrapedContent)
PostClassify(s) ==
    /\ reqs[s].pc = "classify" /\ reqs[s].route = "single"
    /\ LET r == reqs[s] IN
       \E k \in FailCounts, o \in OrchOutcomes :
          LET outs == [i \in 1..Len(ModelsSingle) |-> IF i <= k THEN Threw ELSE o]
              run == RunGateway(ModelsSingle, outs, 1)
              r1 == [r EXCEPT !.aiCalls = run.calls,
                              !.aiAllFailed = \A i \in DOMAIN outs : outs[i].kind \in {"throw", "null"},
                              !.aiThrew = run.threw,
                              !.analysis = run.result]
          IN  reqs' = [reqs EXCEPT ![s] =
                  IF run.threw
                  THEN [r1 EXCEPT !.pc = "done", !.resp = ErrorResp(500, "AI analysis failed.")]
                  ELSE IF SignedIn(r.user) THEN [r1 EXCEPT !.pc = "save"]
                  ELSE [r1 EXCEPT !.pc = "done",
                                  !.resp = AnonResp(NormalizedOf(r), run.result, now)]]
    /\ UNCHANGED <<now, store, started>>
    /\ UNCHANGED <<crawlVars, aiVars, urlVars, scrapeVars, netVars>>

\* await saveScan(scanToSave), then the response
PostSave(s) ==
    /\ reqs[s].pc = "save"
    /\ LET r == [reqs[s] EXCEPT !.saves = @ + 1]
           row == MkRow(Len(store) + 1, r.user, HashOf(r), NormalizedOf(r), r.analysis, now)
       IN
       \E err \in BOOLEAN :
          LET failed == err \/ ~CanInsert(r.user, HashOf(r), r.analysis)
              r1 == [r EXCEPT !.saveErr = err]
          IN
          IF ~failed
          THEN /\ store' = Append(store, row)
               /\ reqs' = [reqs EXCEPT ![s] =
                      [r1 EXCEPT !.pc = "done", !.savedId = row.id, !.resp = RowResp(row, FALSE)]]
          ELSE /\ store' = store
               /\ reqs' = [reqs EXCEPT ![s] =
                      IF SaveScanThrows(failed)
                      THEN [r1 EXCEPT !.pc = "done",
                                      !.resp = ErrorResp(500, "Internal Server Error")]
                      ELSE [r1 EXCEPT !.pc = "done",
                                      !.resp = AnonResp(NormalizedOf(r), r.analysis, now)]]
    /\ UNCHANGED <<now, started>>
    /\ UNCHANGED <<crawlVars, aiVars, urlVars, scrapeVars, netVars>>

(***************************************************************************)
(* POST of the crawl-based route.  It reads no session and uses no store.  *)
(* crawlWebsite appears by what it returns: a list of fetched pages, empty *)
(* when the fetch of the seed failed.                                      *)
(***************************************************************************)
CrawlResults == SeqsUpTo(OrchHtmls, MaxCrawled)

RECURSIVE Aggregate(_, _)
\* for (const page of pages) { scraped = scrapeContent(page.content); ... }:
\* the text lengths of the pages that enter combinedText, in order
Aggregate(pages, i) ==
    IF i > Len(pages) THEN <<>>
    ELSE LET scraped == ScrapeContent(pages[i])
         IN  (IF Analyzable(scraped.text) THEN <<scraped.text>> ELSE <<>>)
                 \o Aggregate(pages, i + 1)

\* what scrapeContent makes of each page, in order
RECURSIVE ScrapedTexts(_, _)
ScrapedTexts(pages, i) ==
    IF i > Len(pages) THEN <<>>
    ELSE <<ScrapeContent(pages[i]).text>> \o ScrapedTexts(pages, i + 1)

\* the pages that enter combinedText
Included(pages) == {i \in 1..Len(pages) : Analyzable(ScrapeContent(pages[i]).text)}

UrlLen(u) == Len(SchemeText(u.scheme)) + Len(u.host) + Len(u.path)

\* page.url: the first page pushed is the seed, the later ones are other
\* paths of its host
PageUrl(seed, i) ==
    IF i = 1 THEN seed
    ELSE [seed EXCEPT !.path = @ \o <<"/">> \o [k \in 1..(i - 1) |-> "x"]]

\* `\n---\n[${page.url}]\n`
HeaderLen(url) == 6 + UrlLen(url) + 2

RECURSIVE CombinedLen(_, _, _)
\* combinedText += `\n---\n[${page.url}]\n${scraped.text}`: the length of
\* combinedText after the loop
CombinedLen(pages, seed, i) ==
    IF i > Len(pages) THEN 0
    ELSE LET scraped == ScrapeContent(pages[i])
         IN  (IF Analyzable(scraped.text)
              THEN HeaderLen(PageUrl(seed, i)) + scraped.text ELSE 0)
                 + CombinedLen(pages, seed, i + 1)

\* { success: true, data: { ...analysis, screenshot_url } }
QuickResp(a) ==
    [status |-> 200, success |-> TRUE, error |-> "", data |-> [NoData EXCEPT !.analysis = a]]

\* a request arrives: body, validateUrl
QuickStart(s) ==
    /\ reqs[s].pc \in {"idle", "done"}
    /\ started < MaxReqs
    /\ started' = started + 1
    /\ \E in \in OrchInputs :
          LET r == [Idle EXCEPT !.route = "quick", !.input = in]
          IN  reqs' = [reqs EXCEPT ![s] =
                  IF Rejects(ValidateUrl(in))
                  THEN [r EXCEPT !.pc = "done", !.resp = ErrorResp(400, "Invalid URL")]
                  ELSE [r EXCEPT !.pc = "crawl"]]
    /\ UNCHANGED <<now, store>>
    /\ UNCHANGED <<crawlVars, aiVars, urlVars, scrapeVars, netVars>>

\* await crawlWebsite(normalizedUrl, 10), then the aggregation of the pages
QuickCrawl(s) ==
    /\ reqs[s].pc = "crawl"
    /\ \E pages \in CrawlResults :
          LET r == [reqs[s] EXCEPT !.crawls = @ + 1, !.pages = Len(pages),
                                   !.pageTexts = ScrapedTexts(pages, 1),
                                   !.included = Included(pages)]
              combined == Aggregate(pages, 1)
          IN  reqs' = [reqs EXCEPT ![s] =
                  IF Len(pages) = 0
                  THEN [r EXCEPT !.pc = "done", !.resp = ErrorResp(422, "No pages found.")]
                  ELSE IF combined = <<>>
                  THEN [r EXCEPT !.pc = "done",
                                 !.resp = ErrorResp(422, "No analyzable content found.")]
                  ELSE [r EXCEPT !.pc = "classify", !.aiInput = combined,
                                 !.aiTextLen = CombinedLen(pages, NormalizedOf(r), 1)]]
    /\ UNCHANGED <<now, store, started>>
    /\ UNCHANGED <<crawlVars, aiVars, urlVars, scrapeVars, netVars>>

\* await analyzeWithAI(unifiedContent), then the response
QuickClassify(s) ==
    /\ reqs[s].pc = "classify" /\ reqs[s].route = "quick"
    /\ LET r == reqs[s] IN
       \E k \in FailCounts, o \in OrchOutcomes :
          LET outs == [i \in 1..Len(ModelsQuick) |-> IF i <= k THEN Threw ELSE o]
              run == RunGateway(ModelsQuick, outs, 1)
              r1 == [r EXCEPT !.aiCalls = run.calls,
                              !.aiAllFailed = \A i \in DOMAIN outs : outs[i].kind \in {"throw", "null"},
                              !.aiThrew = run.threw,
                              !.analysis = run.result]
          IN  reqs' = [reqs EXCEPT ![s] =
                  IF run.threw
                  THEN [r1 EXCEPT !.pc = "done", !.resp = ErrorResp(500, "AI analysis failed.")]
                  ELSE [r1 EXCEPT !.pc = "done", !.resp = QuickResp(run.result)]]
    /\ UNCHANGED <<now, store, started>>
    /\ UNCHANGED <<crawlVars, aiVars, urlVars, scrapeVars, netVars>>

(***************************************************************************)
(* POST /api/analyze, legacy variant (app/api/analyze/route.ts, first       *)
(* half).  It reads no session; its getCachedScan and saveScan come from    *)
(* lib/supabase, which take and return records without an owner.            *)
(***************************************************************************)
PlaceholderSummary == Str("Unable to analyze this website at the moment.")

\* catch (error) { return { summary: 'Unable to analyze ...', risk_score: 50, ... } }
Placeholder ==
    [summary |-> PlaceholderSummary, risk_score |-> Num(50), reason |-> Undef,
     category |-> Str("Uncategorized"), tags |-> <<"error">>]

\* the return of the try block
LegacySanitize(a) ==
    [summary |-> OrElse(a.summary, Str("Unable to generate summary")),
     risk_score |-> IF a.risk_score.t = "number" THEN a.risk_score ELSE Num(50),
     reason |-> Undef,
     category |-> OrElse(a.category, Str("Unknown")),
     tags |-> IF a.tags.t = "array" THEN Slice5(a.tags.v) ELSE <<>>]

\* analyzeWithAI of the legacy variant: one model, one call, and it never throws
LegacyAnalyze(o) ==
    IF Accepts(o) THEN [threw |-> FALSE, result |-> LegacySanitize(o)]
    ELSE [threw |-> FALSE, result |-> Placeholder]

LegacyOutcomes == {Threw, ParsedNull, ParsedScalar, Good92}

\* lib/supabase getCachedScan(urlHash): a record of that fingerprint inside
\* the cache window, or null
LegacyGetCachedScan(urlHash, t) ==
    LET hits == {row \in Rows : row.url_hash = urlHash /\ Fresh(row, t)}
    IN  IF hits = {} THEN {NoRow} ELSE hits

\* lib/supabase saveScan(scan): the saved record, null, or an exception
LegacySaveOutcomes == {"saved", "null", "throw"}

\* { success: true, data: { id: savedScan?.id || 'temp', url, ...analysis, from_cache: false } }
LegacyResp(id, url, a, t) ==
    [status |-> 200, success |-> TRUE, error |-> "",
     data |-> [id |-> id, user_id |-> "", url |-> url, analysis |-> a,
               created_at |-> t, from_cache |-> FALSE]]

\* a request arrives: body, validateUrl, hashUrl
LegacyStart(s) ==
    /\ reqs[s].pc \in {"idle", "done"}
    /\ started < MaxReqs
    /\ started' = started + 1
    /\ \E in \in OrchInputs :
          LET r == [Idle EXCEPT !.route = "legacy", !.input = in]
          IN  reqs' = [reqs EXCEPT ![s] =
                  IF Rejects(ValidateUrl(in))
                  THEN [r EXCEPT !.pc = "done", !.resp = ErrorResp(400, "Invalid URL")]
                  ELSE [r EXCEPT !.pc = "cache"]]
    /\ UNCHANGED <<now, store>>
    /\ UNCHANGED <<crawlVars, aiVars, urlVars, scrapeVars, netVars>>

\* await getCachedScan(urlHash); if (cachedScan) return it
LegacyCacheCheck(s) ==
    /\ reqs[s].pc = "cache"
    /\ LET r == reqs[s] IN
       \E found \in LegacyGetCachedScan(HashOf(r), now) :
          LET r1 == [r EXCEPT !.lookups = @ + 1, !.lookupAt = now, !.cached = found]
          IN  reqs' = [reqs EXCEPT ![s] =
                  IF found # NoRow
                  THEN [r1 EXCEPT !.pc = "done", !.resp = RowResp(found, TRUE)]
                  ELSE [r1 EXCEPT !.pc = "fetch"]]
    /\ UNCHANGED <<now, store, started>>
    /\ UNCHANGED <<crawlVars, aiVars, urlVars, scrapeVars, netVars>>

\* await fetchWithTimeout(normalizedUrl, FETCH_TIMEOUT), then scrapeContent
LegacyFetch(s) ==
    /\ reqs[s].pc = "fetch"
    /\ LET r == [reqs[s] EXCEPT !.fetches = @ + 1] IN
       \/ reqs' = [reqs EXCEPT ![s] =
              [r EXCEPT !.pc = "done",
                        !.resp = ErrorResp(500, "Failed to load website. It might be blocking bots.")]]
       \/ \E html \in OrchHtmls :
             LET scraped == ScrapeContent(html)
                 r0 == [r EXCEPT !.pages = 1, !.pageTexts = <<scraped.text>>,
                                 !.text = scraped.text]
             IN
             reqs' = [reqs EXCEPT ![s] =
                 IF TooShort(scraped.text)
                 THEN [r0 EXCEPT !.pc = "done",
                                !.resp = ErrorResp(422, "Website has no readable content.")]
                 ELSE [r0 EXCEPT !.pc = "classify", !.aiInput = <<scraped.text>>,
                                 !.included = {1}, !.aiTextLen = scraped.text]]
    /\ UNCHANGED <<now, store, started>>
    /\ UNCHANGED <<crawlVars, aiVars, urlVars, scrapeVars, netVars>>

\* await analyzeWithAI(scrapedContent)
LegacyClassify(s) ==
    /\ reqs[s].pc = "classify"
    /\ LET r == reqs[s] IN
       \E o \in LegacyOutcomes :
          LET run == LegacyAnalyze(o)
              r1 == [r EXCEPT !.aiCalls = 1, !.aiAllFailed = ~Accepts(o),
                              !.aiThrew = run.threw, !.analysis = run.result]
          IN  reqs' = [reqs EXCEPT ![s] =
                  IF run.threw
                  THEN [r1 EXCEPT !.pc = "done", !.resp = ErrorResp(500, "Internal Server Error")]
                  ELSE [r1 EXCEPT !.pc = "save"]]
    /\ UNCHANGED <<now, store, started>>
    /\ UNCHANGED <<crawlVars, aiVars, urlVars, scrapeVars, netVars>>

\* await saveScan({ url_hash, url, ...analysis }), then the response
LegacySave(s) ==
    /\ reqs[s].pc = "save"
    /\ LET r == [reqs[s] EXCEPT !.saves = @ + 1]
           row == MkRow(Len(store) + 1, "", HashOf(r), NormalizedOf(r), r.analysis, now)
       IN
       \E out \in LegacySaveOutcomes :
          \/ /\ out = "saved"
             /\ store' = Append(store, row)
             /\ reqs' = [reqs EXCEPT ![s] =
                    [r EXCEPT !.pc = "done", !.savedId = row.id,
                              !.resp = LegacyResp(row.id, NormalizedOf(r), r.analysis, now)]]
          \/ /\ out = "null"
             /\ store' = store
             /\ reqs' = [reqs EXCEPT ![s] =
                    [r EXCEPT !.pc = "done",
                              !.resp = LegacyResp("temp", NormalizedOf(r), r.analysis, now)]]
          \/ /\ out = "throw"
             /\ store' = store
             /\ reqs' = [reqs EXCEPT ![s] =
                    [r EXCEPT !.pc = "done", !.saveErr = TRUE,
                              !.resp = ErrorResp(500, "Internal Server Error")]]
    /\ UNCHANGED <<now, started>>
    /\ UNCHANGED <<crawlVars, aiVars, urlVars, scrapeVars, netVars>>

\* time passes
ClockSteps == {23, 24, 25}

Tick ==
    /\ \E d \in ClockSteps : now + d <= MaxClock /\ now' = now + d
    /\ UNCHANGED <<store, reqs, started>>
    /\ UNCHANGED <<crawlVars, aiVars, urlVars, scrapeVars, netVars>>

OrchNext ==
    \/ \E s \in Slots : PostStart(s)
    \/ \E s \in Slots : PostCacheCheck(s)
    \/ \E s \in Slots : PostFetch(s)
    \/ \E s \in Slots : PostClassify(s)
    \/ \E s \in Slots : PostSave(s)
    \/ \E s \in Slots : QuickStart(s)
    \/ \E s \in Slots : QuickCrawl(s)
    \/ \E s \in Slots : QuickClassify(s)
    \/ Tick

(***************************************************************************)
(* Two invocations of POST (single-page variant) in flight at once.  Each   *)
(* await is a step, so the lookups, fetches, classifications and saves of   *)
(* the two requests interleave in every order.  The requests are those of   *)
(* signed-in users for URLs of one fingerprint.                             *)
(***************************************************************************)
ConcInit ==
    /\ now = 0
    /\ store = <<>>
    /\ reqs = [s \in {1, 2} |-> Idle]
    /\ started = 0

ConcStart(s) ==
    /\ PostStart(s)
    /\ reqs'[s].user \in Users /\ reqs'[s].input = InA

ConcFetch(s) ==
    /\ PostFetch(s)
    /\ reqs'[s].pc = "classify" /\ reqs'[s].text = ScrapeContent(HtmlOk).text

ConcClassify(s) ==
    /\ PostClassify(s)
    /\ reqs'[s].aiCalls = 1 /\ reqs'[s].analysis = Sanitize(Good92)

ConcNext ==
    \/ \E s \in Slots : ConcStart(s)
    \/ \E s \in Slots : PostCacheCheck(s)
    \/ \E s \in Slots : ConcFetch(s)
    \/ \E s \in Slots : ConcClassify(s)
    \/ \E s \in Slots : PostSave(s)
    \/ Tick

(***************************************************************************)
(* The network operations of one request, in the order the route awaits    *)
(* them.  The request's own steps and its timer are the program's; when a   *)
(* remote server or backend answers, and whether it does, is not.           *)
(***************************************************************************)
QuickBudget == 10

NetIdle ==
    [pc |-> "idle", route |-> "none", timer |-> "none", pagesOk |-> 0, pagesBad |-> 0,
     aiTried |-> 0, outcome |-> "none"]

NetInit == net = NetIdle

NetOff == net = [NetIdle EXCEPT !.pc = "off"]

NetModels(route) == IF route = "single" THEN ModelsSingle ELSE ModelsQuick

\* fetchWithTimeout: setTimeout(() => controller.abort(), timeout), then fetch(url, { signal })
NetFetchStart ==
    /\ net.pc = "idle"
    /\ net' = [net EXCEPT !.pc = "headers", !.route = "single", !.timer = "armed"]
    /\ UNCHANGED <<crawlVars, aiVars, orchVars, urlVars, scrapeVars>>

\* the timer runs out: controller.abort() rejects what the signal is attached to
NetTimerFires ==
    /\ net.timer = "armed" /\ net.pc \in {"headers", "body"}
    /\ net' = [net EXCEPT !.pc = "done", !.timer = "fired", !.outcome = "aborted"]
    /\ UNCHANGED <<crawlVars, aiVars, orchVars, urlVars, scrapeVars>>

\* await fetch(...) settles: clearTimeout(timeoutId) on both paths, then
\* response.ok is looked at and response.text() is awaited
NetHeadersArrive ==
    /\ net.pc = "headers"
    /\ \E ok \in BOOLEAN :
          net' = IF ok THEN [net EXCEPT !.pc = "body", !.timer = "cleared"]
                 ELSE [net EXCEPT !.pc = "done", !.timer = "cleared", !.outcome = "aborted"]
    /\ UNCHANGED <<crawlVars, aiVars, orchVars, urlVars, scrapeVars>>

\* await response.text() settles; POST scrapes and checks the length
NetBodyArrives ==
    /\ net.pc = "body"
    /\ \E ok \in BOOLEAN :
          net' = IF ok THEN [net EXCEPT !.pc = "ai", !.pagesOk = 1, !.aiTried = 1]
                 ELSE [net EXCEPT !.pc = "done", !.pagesBad = 1, !.outcome = "aborted"]
    /\ UNCHANGED <<crawlVars, aiVars, orchVars, urlVars, scrapeVars>>

\* crawlWebsite(normalizedUrl, 10): crawl(startUrl) reaches axios.get(url)
NetCrawlStart ==
    /\ net.pc = "idle"
    /\ net' = [net EXCEPT !.pc = "get", !.route = "quick"]
    /\ UNCHANGED <<crawlVars, aiVars, orchVars, urlVars, scrapeVars>>

\* await axios.get(url) settles; the crawl goes on to the next link while
\* links and budget are left, then POST aggregates
NetGetReplies ==
    /\ net.pc = "get"
    /\ \E ok \in BOOLEAN, more \in BOOLEAN :
          LET n1 == IF ok THEN [net EXCEPT !.pagesOk = @ + 1]
                    ELSE [net EXCEPT !.pagesBad = @ + 1]
              goesOn == /\ more
                        /\ n1.pagesOk > 0
                        /\ n1.pagesOk + n1.pagesBad < QuickBudget
          IN  net' = IF goesOn THEN n1
                     ELSE IF n1.pagesOk = 0
                     THEN [n1 EXCEPT !.pc = "done", !.outcome = "aborted"]
                     ELSE [n1 EXCEPT !.pc = "ai", !.aiTried = 1]
    /\ UNCHANGED <<crawlVars, aiVars, orchVars, urlVars, scrapeVars>>

\* await callGemini(modelName, prompt) settles: a result, or the loop of
\* analyzeWithAI goes to the next model
NetAiReplies ==
    /\ net.pc = "ai"
    /\ \E ok \in BOOLEAN :
          net' = IF ok THEN [net EXCEPT !.pc = "done", !.outcome = "responding"]
                 ELSE IF net.aiTried < Len(NetModels(net.route))
                 THEN [net EXCEPT !.aiTried = AiAdvance(@)]
                 ELSE [net EXCEPT !.pc = "done", !.outcome = "aborted"]
    /\ UNCHANGED <<crawlVars, aiVars, orchVars, urlVars, scrapeVars>>

\* the steps the program takes by itself
NetLocal == NetFetchStart \/ NetCrawlStart \/ NetTimerFires

\* besides them, the steps that need a remote party to answer
NetNext ==
    \/ NetLocal
    \/ NetHeadersArrive
    \/ NetBodyArrives
    \/ NetGetReplies
    \/ NetAiReplies

LegacyNext ==
    \/ \E s \in Slots : LegacyStart(s)
    \/ \E s \in Slots : LegacyCacheCheck(s)
    \/ \E s \in Slots : LegacyFetch(s)
    \/ \E s \in Slots : LegacyClassify(s)
    \/ \E s \in Slots : LegacySave(s)
    \/ Tick

Init == OrchInit /\ CrawlOff /\ AiOff /\ UrlOff /\ ScrapeOff /\ NetOff

InitLegacy == OrchInit /\ CrawlOff /\ AiOff /\ UrlOff /\ ScrapeOff /\ NetOff

SpecLegacy == InitLegacy /\ [][LegacyNext]_vars

InitScrape == ScrapeInit /\ CrawlOff /\ AiOff /\ OrchOff /\ UrlOff /\ NetOff

SpecScrape == InitScrape /\ [][ScrapeNext]_vars

InitNet == NetInit /\ CrawlOff /\ AiOff /\ OrchOff /\ UrlOff /\ ScrapeOff

SpecNet == InitNet /\ [][NetNext]_vars

\* the event loop runs the program's own steps and fires its timers; nothing
\* makes a remote party answer
FairNet == SpecNet /\ WF_vars(NetLocal)

InitConc == ConcInit /\ CrawlOff /\ AiOff /\ UrlOff /\ ScrapeOff /\ NetOff

SpecConc == InitConc /\ [][ConcNext]_vars

Spec == Init /\ [][OrchNext]_vars

InitAI == AiInit /\ CrawlOff /\ OrchOff /\ UrlOff /\ ScrapeOff /\ NetOff

SpecAI == InitAI /\ [][AiNext]_vars

InitUrl == UrlInit /\ CrawlOff /\ AiOff /\ OrchOff /\ ScrapeOff /\ NetOff

SpecUrl == InitUrl /\ [][UrlNext]_vars

InitCrawl == CrawlInit /\ AiOff /\ OrchOff /\ UrlOff /\ ScrapeOff /\ NetOff

SpecCrawl == InitCrawl /\ [][CrawlNext]_vars

\* every page fetch returns or fails, and the event loop keeps running
FairCrawl == SpecCrawl /\ WF_vars(CrawlNext)

(***************************************************************************)
(* Claims about crawlWebsite.                                              *)
(***************************************************************************)
Range(s) == {s[i] : i \in 1..Len(s)}

\* C1: for every seed, every link graph and every maxPages = n >= 0 the crawl
\* terminates (given that each page fetch returns or fails), it hands at most
\* n URLs to the fetcher, all distinct, and it returns at most n pages.
C1_CrawlTerminatesWithinBudget ==
    /\ <>(cPc = "done")
    /\ [](/\ Len(fetchLog) <= maxPages
          /\ Cardinality(Range(fetchLog)) = Len(fetchLog)
          /\ Len(results) <= maxPages)

\* a finished crawl that used up its budget on a graph with a cycle
C1_Witness ==
    /\ cPc = "done" /\ sawBack
    /\ maxPages >= 2 /\ Len(fetchLog) = maxPages /\ Len(results) = maxPages

\* C2: every returned page, and every URL handed to the fetcher, has the
\* seed's hostname, whatever links the fetched pages hold (host is read as
\* URL.hostname, the name without the port, which is what the code compares).
C2_CrawlerScope ==
    /\ \A i \in 1..Len(results) : results[i].host = cSeed.host
    /\ \A i \in 1..Len(fetchLog) : fetchLog[i].host = cSeed.host

\* a finished crawl of several pages that met links to other hosts
C2_Witness ==
    cPc = "done" /\ sawForeign /\ Len(results) >= 2

\* C24: within one crawlWebsite call every URL is fetched at most once: a URL
\* of the visited set is never fetched again, also when its fetch failed, and
\* no URL is twice in the returned list.
C24_NoRevisit ==
    /\ Range(fetchLog) = visited
    /\ Cardinality(visited) = Len(fetchLog)
    /\ Cardinality(Range(results)) = Len(results)
    /\ Range(results) \subseteq visited
    /\ cFailed \subseteq visited
    /\ \A u \in cFailed : Cardinality({i \in 1..Len(fetchLog) : fetchLog[i] = u}) = 1

\* a finished crawl in which a page linked to a URL whose fetch had failed
C24_Witness ==
    cPc = "done" /\ sawRetry /\ cFailed # {}

\* C25: a failed page fetch does not end the crawl and does not leave
\* crawlWebsite: the failed page is not among the results, and when the crawl
\* returns with budget left, every link that passed a page's filter was
\* visited.
C25_FailureIsLocal ==
    /\ cFailed \cap Range(results) = {}
    /\ cPc \in {"start", "run", "done"}
    /\ cPc = "done" => (Cardinality(visited) >= maxPages \/ offered \subseteq visited)
    /\ cPc = "done" => Len(results) + Cardinality(cFailed) = Len(fetchLog)

\* the fetch of a linked page failed and the link after it was fetched
C25_Witness ==
    /\ cPc = "done" /\ Len(stack) = 0
    /\ \E i, j \in 1..Len(fetchLog) :
          /\ i < j /\ i > 1
          /\ fetchLog[i] \in cFailed
          /\ fetchLog[j] \in Range(results)

\* C26: the crawl is a sequential depth-first traversal: only the deepest
\* call has a fetch in flight, the next URL fetched is always the next link of
\* the deepest page still being processed, and the returned pages are the
\* successful fetches in the order of their fetches, the seed first.
C26_SequentialDepthFirst ==
    /\ [](/\ \A i \in 1..(Len(stack) - 1) : stack[i].st = "loop"
          /\ \A i, j \in 1..Len(results) :
                i < j => \E k, l \in 1..Len(fetchLog) :
                            k < l /\ fetchLog[k] = results[i] /\ fetchLog[l] = results[j]
          /\ fetchLog # <<>> => fetchLog[1] = cSeed
          /\ results # <<>> => results[1] = cSeed
          /\ stack # <<>> => stack[1].url = cSeed)
    /\ [][fetchLog' # fetchLog =>
             /\ Len(fetchLog') = Len(fetchLog) + 1
             /\ Len(stack') = Len(stack) + 1
             /\ stack'[Len(stack')].st = "fetching"
             /\ stack'[Len(stack')].url = fetchLog'[Len(fetchLog')]
             /\ stack # <<>> =>
                   /\ Top.st = "loop" /\ Top.links # <<>>
                   /\ fetchLog'[Len(fetchLog')] = Resolve(Head(Top.links), Top.url)]_vars

\* the fetch of a page two levels below the seed is in flight while the seed
\* still has a link to visit
C26_Witness ==
    /\ Len(stack) = 3 /\ Top.st = "fetching"
    /\ stack[1].links # <<>>

\* C32: failed page fetches use up the page budget: at every point of a crawl
\* the returned pages and the failed fetches together are at most the
\* visited URLs, which are at most maxPages; so with k failed fetches at most
\* maxPages - k pages are returned, reachable pages left or not.
C32_FailuresConsumeBudget ==
    /\ Len(results) <= Cardinality(visited)
    /\ Cardinality(visited) <= maxPages
    /\ Len(results) + Cardinality(cFailed) <= Cardinality(visited)
    /\ Len(results) <= maxPages - Cardinality(cFailed)

\* a finished crawl with a failed fetch that returned maxPages - k pages and
\* left a link of the seed's host unvisited
C32_Witness ==
    /\ cPc = "done" /\ cFailed # {}
    /\ Len(results) >= 1
    /\ Len(results) = maxPages - Cardinality(cFailed)
    /\ offered \ visited # {}

(***************************************************************************)
(* Claims about analyzeWithAI.                                             *)
(***************************************************************************)
\* C3 (as amended): the backends are invoked in the order of the candidate
\* list, each at most once; the gateway stops at the first backend that
\* returns a parseable, non-null response and returns the sanitized form of
\* that response; the failures before it are not raised.
C3_FallbackOrder ==
    /\ Len(aiCalls) <= Len(modelsToTry)
    /\ \A i \in 1..Len(aiCalls) : aiCalls[i] = modelsToTry[i]
    /\ \A i, j \in 1..Len(aiCalls) : i # j => aiCalls[i] # aiCalls[j]
    /\ aiFirstUsable # 0 => Len(aiCalls) = aiFirstUsable /\ aiPc = "returned"
    /\ aiPc = "returned" =>
          /\ aiFirstUsable = Len(aiCalls)
          /\ Parsed(aiAccepted) /\ aiAccepted.kind # "null"
          /\ aiResult = Sanitize(aiAccepted)
    /\ aiPc = "threw" => aiFirstUsable = 0 /\ Len(aiCalls) = Len(modelsToTry)

\* the first two backends failed and the third one's response was returned
C3_Witness ==
    /\ aiPc = "returned" /\ Len(aiCalls) = 3
    /\ aiAccepted.kind = "object" /\ aiAccepted.risk_score = Num(92)
    /\ aiResult.risk_score = Num(92)

\* C3 as stated: the gateway stops at the first backend whose response
\* parses (a response that parses to null included).
C3_StopsAtFirstParseable ==
    /\ \A i \in 1..Len(aiCalls) : aiCalls[i] = modelsToTry[i]
    /\ aiFirstParsed # 0 => Len(aiCalls) = aiFirstParsed /\ aiPc = "returned"
    /\ aiPc = "returned" => aiResult = Sanitize(aiAccepted)

\* C5: the risk score of every result the gateway returns is an integer in
\* [0,100].
C5_RiskScoreInRange ==
    aiPc = "returned" =>
        /\ aiResult.risk_score.t = "number"
        /\ aiResult.risk_score.frac = 0
        /\ aiResult.risk_score.v >= 0 /\ aiResult.risk_score.v <= 100

\* C6: when the accepted response has no risk_score, or one that is not of
\* numeric type, the result's risk score is exactly 50.
C6_RiskScoreDefault ==
    (aiPc = "returned" /\ aiAccepted.risk_score.t # "number") =>
        aiResult.risk_score = Num(50)

\* the accepted response carried risk_score: "high"
C6_Witness ==
    /\ aiPc = "returned" /\ aiAccepted.risk_score = Str("high")
    /\ aiResult.risk_score = Num(50)

\* C7: the result's tags are the first (up to) five tags of the accepted
\* response, in their order; a tags field that is no array gives no tags.
C7_TagsFirstFive ==
    aiPc = "returned" =>
        /\ Len(aiResult.tags) <= 5
        /\ aiAccepted.tags.t = "array" =>
              /\ Len(aiResult.tags) =
                    (IF Len(aiAccepted.tags.v) < 5 THEN Len(aiAccepted.tags.v) ELSE 5)
              /\ \A i \in 1..Len(aiResult.tags) : aiResult.tags[i] = aiAccepted.tags.v[i]
        /\ aiAccepted.tags.t # "array" => aiResult.tags = <<>>

\* a response with six tags was cut to its first five
C7_Witness ==
    /\ aiPc = "returned" /\ aiAccepted.tags = Arr(<<"t1", "t2", "t2", "t1", "t2", "t1">>)
    /\ aiResult.tags = <<"t1", "t2", "t2", "t1", "t2">>

\* C31: a response that parses to a non-null value counts as a success even
\* when it is no object with the asked fields ({} or a bare number): the
\* gateway returns the placeholders with risk score 50 and calls no further
\* backend; only a call that throws (transport failure, unparsable text) or
\* yields null moves the gateway to the next backend.
C31_AnyNonNullValueIsSuccess ==
    /\ [](/\ aiPc = "returned"
          /\ \/ aiAccepted.kind = "scalar"
             \/ /\ aiAccepted.kind = "object"
                /\ aiAccepted.summary = Undef /\ aiAccepted.risk_score = Undef
                /\ aiAccepted.reason = Undef /\ aiAccepted.category = Undef
                /\ aiAccepted.tags = Undef
          => /\ aiResult.summary = Str("Unable to generate summary")
             /\ aiResult.risk_score = Num(50)
             /\ aiResult.reason = Str("No explanation provided.")
             /\ aiResult.category = Str("Unknown")
             /\ aiResult.tags = <<>>
             /\ Len(aiCalls) = aiFirstUsable)
    /\ [][aiPc = "returned" => aiCalls' = aiCalls /\ aiPc' = aiPc]_vars
    /\ [][aiIdx' # aiIdx => aiFirstUsable' = 0 /\ aiPc' = "loop"]_vars
    /\ [][(aiCalls' # aiCalls /\ aiFirstUsable' # 0) =>
             aiPc' = "returned" /\ aiIdx' = aiIdx]_vars
    /\ [][(aiCalls' # aiCalls /\ aiFirstUsable' = 0) => aiIdx' = aiIdx + 1]_vars

\* the first backend failed, the second answered with a bare number, and
\* that ended the loop with the placeholders
C31_Witness ==
    /\ aiPc = "returned" /\ Len(aiCalls) = 2 /\ aiIdx = 2
    /\ aiAccepted = ParsedScalar
    /\ aiResult.risk_score = Num(50) /\ aiResult.tags = <<>>

(***************************************************************************)
(* Claims about POST /api/analyze and the result store.                    *)
(***************************************************************************)
\* C4: when every backend of the candidate list fails, analyzeWithAI raises
\* the analysis-failed error and yields no result; the request is answered
\* success:false with status 500 and saves no scan record.
C4_TotalFailure ==
    \A s \in Slots :
        reqs[s].aiAllFailed =>
            /\ reqs[s].aiThrew /\ reqs[s].analysis = NoResult
            /\ reqs[s].aiCalls =
                  Len(IF reqs[s].route = "single" THEN ModelsSingle ELSE ModelsQuick)
            /\ reqs[s].pc = "done"
            /\ reqs[s].resp.success = FALSE /\ reqs[s].resp.status = 500
            /\ reqs[s].saves = 0 /\ reqs[s].savedId = 0

\* a signed-in owner's request whose eight backends all failed
C4_Witness ==
    \E s \in Slots :
        /\ reqs[s].aiAllFailed /\ reqs[s].user \in Users
        /\ reqs[s].resp.status = 500 /\ reqs[s].fetches = 1

\* C8: a request by one owner is never answered from_cache:true with a
\* record of another owner, also when the fingerprint matches.
C8_CacheOwnership ==
    \A s \in Slots :
        (reqs[s].resp.success /\ reqs[s].resp.data.from_cache) =>
            /\ reqs[s].user # NoUser
            /\ reqs[s].resp.data.user_id = reqs[s].user
            /\ reqs[s].cached.user_id = reqs[s].user

\* B's lookup met A's fresh record of the same fingerprint and B was not
\* answered from the cache
C8_Witness ==
    \E s \in Slots :
        /\ reqs[s].user = "B" /\ reqs[s].lookups = 1
        /\ reqs[s].cached # NoRow /\ reqs[s].cached.user_id = "A"
        /\ reqs[s].cached.url_hash = HashOf(reqs[s])
        /\ reqs[s].pc = "done" /\ reqs[s].resp.success /\ ~reqs[s].resp.data.from_cache

\* C9: getCachedScan returns a record only when it was created within the
\* 24 hours before the lookup.
C9_CacheFreshness ==
    \A s \in Slots :
        reqs[s].cached # NoRow =>
            /\ reqs[s].lookupAt - reqs[s].cached.created_at <= TwentyFourHours
            /\ reqs[s].lookupAt - reqs[s].cached.created_at >= 0
            /\ reqs[s].cached.url_hash = HashOf(reqs[s])

\* a record created at T is returned by a lookup at T + 23h
C9_Witness ==
    \E s \in Slots :
        /\ reqs[s].cached # NoRow
        /\ reqs[s].lookupAt - reqs[s].cached.created_at = 23
        /\ reqs[s].resp.data.from_cache

\* C10: whenever the store holds a record of (owner U, fingerprint F) created
\* less than 24 hours ago, a request by U for a URL with fingerprint F (whose
\* lookup met no storage error) is answered from_cache:true without a page
\* fetch and without a classifier call, whatever records other owners hold.
C10_OwnFreshRecordHits ==
    \A s \in Slots :
        (reqs[s].lookups = 1 /\ reqs[s].ownFresh /\ ~reqs[s].lookupErr) =>
            /\ reqs[s].pc = "done"
            /\ reqs[s].resp.success /\ reqs[s].resp.data.from_cache
            /\ reqs[s].fetches = 0 /\ reqs[s].aiCalls = 0

\* C11: saveScan for an (owner, fingerprint) pair that already has a record
\* adds a further row: every save of an authenticated request that meets no
\* storage error (in its lookup or its save) and carries a score the table
\* accepts ends with a saved row.
C11_RescanIsSaved ==
    \A s \in Slots :
        (/\ reqs[s].pc = "done" /\ reqs[s].saves = 1 /\ ~reqs[s].saveErr
         /\ ~reqs[s].lookupErr
         /\ RiskCheck(reqs[s].analysis.risk_score)) =>
            /\ reqs[s].savedId # 0
            /\ \E row \in Rows : row.id = reqs[s].savedId /\ row.user_id = reqs[s].user

\* C12: a request without an authenticated owner (single-page route) makes no
\* store lookup and no store save; its successful response carries the result
\* computed for this request, from_cache:false and the id 'anon'.
C12_AnonymousBypassesStore ==
    \A s \in Slots :
        (reqs[s].route = "single" /\ reqs[s].user = NoUser /\ reqs[s].pc # "idle") =>
            /\ reqs[s].lookups = 0 /\ reqs[s].saves = 0 /\ reqs[s].savedId = 0
            /\ reqs[s].pc \notin {"cache", "save"}
            /\ reqs[s].resp.success =>
                  /\ reqs[s].fetches = 1 /\ reqs[s].aiCalls >= 1
                  /\ reqs[s].resp.data.from_cache = FALSE
                  /\ reqs[s].resp.data.id = "anon"
                  /\ reqs[s].resp.data.user_id = ""
                  /\ reqs[s].resp.data.analysis = reqs[s].analysis

\* an anonymous request answered with success while the table holds a fresh
\* record of the same fingerprint
C12_Witness ==
    \E s \in Slots :
        /\ reqs[s].route = "single" /\ reqs[s].user = NoUser
        /\ reqs[s].pc = "done" /\ reqs[s].resp.success
        /\ \E row \in Rows : row.url_hash = HashOf(reqs[s]) /\ Fresh(row, now)

\* C13: when the classification succeeded and the save of an authenticated
\* request fails, the response is still success:true with status 200, the
\* computed analysis and from_cache:false.
C13_SaveFailureDegrades ==
    \A s \in Slots :
        (reqs[s].pc = "done" /\ reqs[s].saves = 1 /\ reqs[s].savedId = 0) =>
            /\ reqs[s].resp.success /\ reqs[s].resp.status = 200
            /\ reqs[s].resp.data.analysis = reqs[s].analysis
            /\ reqs[s].resp.data.from_cache = FALSE
            /\ reqs[s].analysis # NoResult

\* the save of a signed-in owner's request met a storage error
C13_Witness ==
    \E s \in Slots :
        /\ reqs[s].user \in Users /\ reqs[s].pc = "done"
        /\ reqs[s].saves = 1 /\ reqs[s].saveErr /\ reqs[s].savedId = 0
        /\ reqs[s].resp.success

\* C14: a storage error of the cache lookup is not propagated: the lookup
\* reports absent and the request goes on to fetch, extract and classify as
\* on a cache miss.
C14_LookupErrorIsMiss ==
    \A s \in Slots :
        reqs[s].lookupErr =>
            /\ reqs[s].cached = NoRow
            /\ reqs[s].pc \in {"fetch", "classify", "save", "done"}
            /\ reqs[s].pc # "fetch" => reqs[s].fetches = 1
            /\ reqs[s].resp.error # "Internal Server Error"
            /\ reqs[s].resp.data.from_cache = FALSE
            /\ reqs[s].resp.success => reqs[s].aiCalls >= 1 /\ reqs[s].text >= MinTextLen

\* the lookup failed although the owner's fresh record exists, and the request
\* was fetched, classified and answered
C14_Witness ==
    \E s \in Slots :
        /\ reqs[s].lookupErr /\ reqs[s].ownFresh
        /\ reqs[s].pc = "done" /\ reqs[s].resp.success /\ reqs[s].fetches = 1

\* C15: when validateUrl rejects the input, the request (of either route) ends
\* with success:false, error 'Invalid URL' and status 400, without store
\* lookup, page fetch, crawl, classifier call or store save.
C15_InvalidUrlEndsEarly ==
    \A s \in Slots :
        (reqs[s].pc # "idle" /\ ~ValidateUrl(reqs[s].input).valid) =>
            /\ reqs[s].pc = "done"
            /\ reqs[s].resp = ErrorResp(400, "Invalid URL")
            /\ reqs[s].lookups = 0 /\ reqs[s].fetches = 0 /\ reqs[s].crawls = 0
            /\ reqs[s].aiCalls = 0 /\ reqs[s].saves = 0

\* a rejected request of the crawl-based route, after a request that was served
C15_Witness ==
    \E s \in Slots :
        /\ reqs[s].route = "quick" /\ reqs[s].input = InBad
        /\ reqs[s].resp.status = 400 /\ store # <<>>

\* C18: two distinct normalized URLs have distinct fingerprints, so a cache
\* hit is never served with the record of another normalized URL.
C18_DistinctUrlsDistinctFingerprints ==
    \A s \in Slots :
        /\ (reqs[s].pc # "idle" /\ ValidateUrl(reqs[s].input).valid) =>
              \A row \in Rows :
                  row.url # NormalizedOf(reqs[s]) => row.url_hash # HashOf(reqs[s])
        /\ (reqs[s].resp.success /\ reqs[s].resp.data.from_cache) =>
              reqs[s].resp.data.url = NormalizedOf(reqs[s])

\* C19: in both routes the classifier is only invoked with content made of
\* extracted texts of at least 50 characters; when pages were retrieved and no
\* analyzable text remains, the request ends with status 422 and no
\* classifier call.
C19_MinimumLengthGate ==
    \A s \in Slots :
        /\ (reqs[s].aiCalls > 0 \/ reqs[s].pc = "classify") =>
              /\ reqs[s].aiInput # <<>>
              /\ \A i \in 1..Len(reqs[s].aiInput) : reqs[s].aiInput[i] >= MinTextLen
        /\ (reqs[s].pc = "done" /\ reqs[s].pages > 0 /\ reqs[s].aiInput = <<>>) =>
              /\ reqs[s].resp.status = 422 /\ reqs[s].resp.success = FALSE
              /\ reqs[s].aiCalls = 0

\* the crawl returned two pages, one of them too short, and only the other
\* one reached the classifier
C19_Witness ==
    \E s \in Slots :
        /\ reqs[s].route = "quick" /\ reqs[s].pages = 2
        /\ Len(reqs[s].aiInput) = 1 /\ reqs[s].aiCalls > 0

\* C20: when the single fetch fails or the crawler returns no page, the
\* request ends with success:false and a 5xx status.
C20_TotalFetchFailureIs5xx ==
    \A s \in Slots :
        (/\ reqs[s].pc = "done" /\ reqs[s].pages = 0
         /\ \/ reqs[s].route = "single" /\ reqs[s].fetches = 1
            \/ reqs[s].route = "quick" /\ reqs[s].crawls = 1) =>
            /\ reqs[s].resp.success = FALSE
            /\ reqs[s].resp.status >= 500

\* C21: every content handed to the classifier, built from a single page or
\* aggregated from the crawled pages, has text of at most 12000 characters.
C21_ClassifierTextBounded ==
    \A s \in Slots :
        (reqs[s].pc = "classify" \/ reqs[s].aiCalls > 0) =>
            reqs[s].aiTextLen <= MaxTextLen

\* C22: every network operation of a request (the single-page fetch with the
\* reading of its body, each page fetch of the crawler, each classifier call)
\* waits under a timer, so the request reaches Responding or Aborted even if
\* a remote party never answers.
C22_NetworkOperationsBounded ==
    /\ [](net.pc \in {"headers", "body", "get", "ai"} => net.timer = "armed")
    /\ <>(net.pc = "done" /\ net.outcome \in {"responding", "aborted"})

\* C23: at every moment, whatever the interleaving of the requests, the store
\* holds at most one record per (owner, fingerprint) pair created within the
\* last 24 hours.
C23_OneFreshRecordPerOwnerAndUrl ==
    \A i, j \in 1..Len(store) :
        (/\ i # j
         /\ store[i].user_id = store[j].user_id
         /\ store[i].url_hash = store[j].url_hash) =>
            ~(Fresh(store[i], now) /\ Fresh(store[j], now))

\* two requests of one owner for one fingerprint both missed the cache, both
\* went on to save, one row was created and the other request's save failed;
\* meanwhile another owner holds a fresh record of that fingerprint
C23_Witness ==
    /\ reqs[1].pc = "done" /\ reqs[2].pc = "done"
    /\ reqs[1].user = reqs[2].user
    /\ reqs[1].saves = 1 /\ reqs[2].saves = 1
    /\ ~reqs[1].saveErr /\ ~reqs[2].saveErr
    /\ (reqs[1].savedId = 0) # (reqs[2].savedId = 0)
    /\ reqs[1].lookupAt = now /\ reqs[2].lookupAt = now
    /\ \E row \in Rows : row.user_id \notin {reqs[1].user, ""} /\ Fresh(row, now)

\* C27: a response flagged from_cache was produced without a fetch, a crawl, a
\* classifier call or a save, carries the analysis fields of the stored record
\* the lookup returned, and the step that produced it left the store as it
\* was; a successful response produced after a fetch and a classification is
\* flagged from_cache:false.
C27_CacheHitShortCircuits ==
    /\ [](\A s \in Slots :
            LET r == reqs[s] IN
            /\ (r.pc = "done" /\ r.resp.data.from_cache) =>
                  /\ r.lookups = 1 /\ r.fetches = 0 /\ r.crawls = 0
                  /\ r.aiCalls = 0 /\ r.saves = 0
                  /\ r.resp.success /\ r.resp.status = 200
                  /\ r.cached \in Rows
                  /\ r.resp.data.analysis.summary = r.cached.summary
                  /\ r.resp.data.analysis.risk_score = r.cached.risk_score
                  /\ r.resp.data.analysis.reason = r.cached.reason
                  /\ r.resp.data.analysis.category = r.cached.category
                  /\ r.resp.data.analysis.tags = r.cached.tags
            /\ (r.pc = "done" /\ r.resp.success /\ r.fetches > 0 /\ r.aiCalls > 0) =>
                  ~r.resp.data.from_cache)
    /\ [][\A s \in Slots :
            (reqs'[s] # reqs[s] /\ reqs'[s].pc = "done" /\ reqs'[s].resp.data.from_cache) =>
                store' = store]_vars

\* a later request of the owner of a stored record was answered from it
C27_Witness ==
    \E s \in Slots :
        /\ reqs[s].pc = "done" /\ reqs[s].resp.data.from_cache
        /\ reqs[s].cached.reason = Str("why") /\ reqs[s].cached.risk_score = Num(92)
        /\ started >= 2

\* C28: scrapeContent returns the text of the candidate region whose text,
\* without what lies inside removed elements, is longest, whatever its place
\* in the selector list; of several regions of that length the earliest in
\* the list is kept; the result is that text with whitespace collapsed, cut
\* at 12000 characters.
C28_LongestRegionWins ==
    scrapeIO.pc = "out" =>
        LET regions == scrapeIO.dom.regions
            raw(i) == regions[i].len - regions[i].junk
            best == CHOOSE i \in DOMAIN regions :
                        /\ \A j \in DOMAIN regions : raw(j) <= raw(i)
                        /\ \A j \in DOMAIN regions : j < i => raw(j) < raw(i)
            clean == raw(best) - regions[best].ws
        IN  scrapeIO.out.text = IF clean > MaxTextLen THEN MaxTextLen ELSE clean

\* two regions tie for the longest text and differ in whitespace, the later
\* of them is not body, and a third region would have been longer with the
\* text of its removed elements
C28_Witness ==
    /\ scrapeIO.pc = "out"
    /\ LET regions == scrapeIO.dom.regions
           raw(i) == regions[i].len - regions[i].junk
       IN  \E i, j, k \in DOMAIN regions :
              /\ i < j /\ raw(i) = raw(j) /\ regions[i].ws # regions[j].ws
              /\ \A m \in DOMAIN regions : raw(m) <= raw(i)
              /\ regions[k].len > raw(i)
              /\ scrapeIO.out.text = raw(i) - regions[i].ws

\* C29: in no variant of the analyze pipeline does a request whose classifier
\* call failed end with success:true, and no analysis that stands in for a
\* failed classification is saved or later served from the cache.
C29_NoFabricatedResult ==
    \A s \in Slots :
        LET r == reqs[s] IN
        /\ (r.pc = "done" /\ r.aiCalls > 0 /\ r.aiAllFailed) =>
              /\ ~r.resp.success
              /\ r.savedId = 0
        /\ (r.pc = "done" /\ r.resp.data.from_cache) =>
              r.resp.data.analysis.summary # PlaceholderSummary

\* C30: both routes use the same threshold: a page whose extracted text has at
\* least 50 characters passes the single-page gate and enters the multi-page
\* aggregate, and only shorter pages are left out.
C30_SameThreshold ==
    \A s \in Slots :
        LET r == reqs[s] IN
        \A i \in 1..Len(r.pageTexts) :
            /\ r.pageTexts[i] >= MinTextLen <=> i \in r.included
            /\ (r.route = "single" /\ r.pc = "done" /\ r.pageTexts[i] >= MinTextLen) =>
                  r.resp.status # 422

\* C33: every success response to a request of a signed-in owner carries that
\* owner's id as user_id: on a cache hit, after a save, and when the save
\* failed.
C33_ResponseNamesOwner ==
    \A s \in Slots :
        (/\ reqs[s].pc = "done" /\ reqs[s].resp.success
         /\ reqs[s].user # NoUser) =>
            reqs[s].resp.data.user_id = reqs[s].user

(***************************************************************************)
(* Claims about validateUrl and hashUrl.                                   *)
(***************************************************************************)
\* C16: validateUrl rejects every input that carries an explicit scheme other
\* than http or https.
C16_ForeignSchemeRejected ==
    urlPair.pc \in {"validated", "hashed"} =>
        /\ urlPair.a.scheme \in {"ftp", "mailto"} => ~urlPair.va.valid
        /\ urlPair.b.scheme \in {"ftp", "mailto"} => ~urlPair.vb.valid

\* C17: two texts that are equal after trimming and lower-casing have the
\* same fingerprint, and the fingerprint of a text is the same on every call.
C17_HashIgnoresCaseAndPadding ==
    urlPair.pc = "hashed" =>
        /\ ToLower(Trim(TextOf(urlPair.a))) = ToLower(Trim(TextOf(urlPair.b))) =>
              urlPair.ha = urlPair.hb
        /\ urlPair.ha = HashText(TextOf(urlPair.a))
        /\ urlPair.hb = HashText(TextOf(urlPair.b))

\* two texts that differ in letter case and in surrounding whitespace were
\* given one fingerprint
C17_Witness ==
    /\ urlPair.pc = "hashed"
    /\ urlPair.a.ws /\ ~urlPair.b.ws
    /\ urlPair.a.scheme = "HTTPS" /\ urlPair.b.scheme = "https"
    /\ urlPair.a.host = <<"A", ".", "c">> /\ urlPair.b.host = <<"a", ".", "c">>
    /\ urlPair.a.path = urlPair.b.path
    /\ urlPair.ha = urlPair.hb

====
